---- MODULE Spec2Model ----
(***************************************************************************)
(* Model of snake-rs (src/src/main.rs): the SnakeGameField state, the      *)
(* operations of Snake / Fruit / SnakeGameField, and the frame loop of     *)
(* main() that drives them.                                                *)
(*                                                                         *)
(* The frame loop is cut at its statement boundaries; pc is the position   *)
(* of main() inside the loop body:                                         *)
(*   "top"    before `if window.should_close()`                 (l.56)     *)
(*   "events" inside `for (_, event) in flush_messages`         (l.63)     *)
(*   "handle" before field.handle_snake_fruit_collision()       (l.85)     *)
(*   "push"   before field.push_snake()                         (l.86)     *)
(*   "check"  before `if check_snake_collision() || check_win()`(l.87)     *)
(*   "render" before renderer.render(&field)                    (l.90)     *)
(*   "done"   after the loop                                    (l.97)     *)
(*                                                                         *)
(* Spec runs the game on a scaled-down field (FieldX x FieldY) so that a   *)
(* full board, wraparound on every edge and self collision are all within  *)
(* reach; the operations are parametric in size_x / size_y, which are      *)
(* fields of SnakeGameField.  SpecLoop runs the 10 x 10 field of           *)
(* SnakeGameField::create from a mid-game position for MaxTicks ticks.     *)
(***************************************************************************)
EXTENDS Integers, Sequences, FiniteSets

VARIABLES
    size_x,       \* SnakeGameField.size_x
    size_y,       \* SnakeGameField.size_y
    head,         \* Snake.head
    tail,         \* Snake.tail (VecDeque: index 1 = front, Len = back)
    direction,    \* Snake.direction
    ate_fruit,    \* Snake.ate_fruit
    fruit,        \* SnakeGameField.fruit.0
    pc,           \* position of main() in the frame loop
    pressed_key,  \* main(): `let mut pressed_key` of the current iteration
    outcome,      \* why the loop was left ("running" while inside it)
    old_head,     \* push_snake(): `let old_head`, kept until the check
    grew,         \* push_snake(): what snake.ate_fruit() returned, kept until the check
    eaten,        \* the fruit cell consumed by the last handle_snake_fruit_collision
    ticks,        \* number of push_snake calls (counted where the run is bounded)
    draws,        \* render(): the draw calls of this iteration's frame
    window        \* the events flush_messages yielded in this poll (SpecInput only)

vars == <<size_x, size_y, head, tail, direction, ate_fruit, fruit, pc,
          pressed_key, outcome, old_head, grew, eaten, ticks, draws, window>>

-----------------------------------------------------------------------------
(* Bounds of the model *)

FieldX == 3
FieldY == 2
MaxTicks == 4
MaxEvents == 2
MaxInputTicks == 1

(* SnakeGameField::create: let size_x = 10; let size_y = 10; *)
CreateSizeX == 10
CreateSizeY == 10

-----------------------------------------------------------------------------
(* Point, SnakeDirection, GameKey *)

Point(x, y) == [x |-> x, y |-> y]

origin == Point(0, 0)

NoPoint == Point(-1, -1)

SnakeDirection == {"Up", "Right", "Down", "Left"}

GameKey == {"Up", "Right", "Down", "Left", "Exit"}

Keys == {"W", "Up", "D", "Right", "S", "Down", "A", "Left", "Escape", "Space"}

Actions == {"Press", "Release", "Repeat"}

(* handle_input without the `action != Action::Press` test *)
handle_input_any_action(key, action) ==
    CASE key \in {"W", "Up"}    -> "Up"
      [] key \in {"D", "Right"} -> "Right"
      [] key \in {"S", "Down"}  -> "Down"
      [] key \in {"A", "Left"}  -> "Left"
      [] key = "Escape"         -> "Exit"
      [] OTHER                  -> "None"

(* handle_input: Option<GameKey>, "None" for Option::None *)
handle_input(key, action) ==
    IF action # "Press" THEN "None"
    ELSE CASE key \in {"W", "Up"}    -> "Up"
           [] key \in {"D", "Right"} -> "Right"
           [] key \in {"S", "Down"}  -> "Down"
           [] key \in {"A", "Left"}  -> "Left"
           [] key = "Escape"         -> "Exit"
           [] OTHER                  -> "None"

(* pressed_key.or(handle_input(..)): the first press of the poll wins *)
OptionOr_first_wins(a, b) == IF b # "None" THEN b ELSE a

(* Option::or: self if it is Some, else the argument *)
OptionOr(a, b) == IF a # "None" THEN a ELSE b

-----------------------------------------------------------------------------
(* Snake *)

(* try_change_direction that always takes the requested direction *)
try_change_direction_allows_reverse(cur, d) == d

(* try_change_direction without the Right/Left arm *)
try_change_direction_no_right_arm(cur, d) ==
    CASE cur = "Up"    /\ d = "Down"  -> cur
      [] cur = "Down"  /\ d = "Up"    -> cur
      [] cur = "Left"  /\ d = "Right" -> cur
      [] OTHER                        -> d

try_change_direction(cur, d) ==
    CASE cur = "Up"    /\ d = "Down"  -> cur
      [] cur = "Right" /\ d = "Left"  -> cur
      [] cur = "Down"  /\ d = "Up"    -> cur
      [] cur = "Left"  /\ d = "Right" -> cur
      [] OTHER                        -> d

-----------------------------------------------------------------------------
(* Fruit *)

(* Fruit::random with gen_range(lo..=hi) *)
FruitRandom_inclusive(x_bounds, y_bounds) ==
    { Point(x, y) : x \in x_bounds[1] .. x_bounds[2],
                    y \in y_bounds[1] .. y_bounds[2] }

(* Fruit::random: gen_range(lo..hi) on each axis, the points it can return *)
FruitRandom(x_bounds, y_bounds) ==
    { Point(x, y) : x \in x_bounds[1] .. (x_bounds[2] - 1),
                    y \in y_bounds[1] .. (y_bounds[2] - 1) }

TailCells == { tail[i] : i \in 1 .. Len(tail) }

(* random_from_field that rejects the head only *)
random_from_field_head_only ==
    { f \in FruitRandom(<<0, size_x>>, <<0, size_y>>) : f # head }

(* Fruit::random_from_field: the samples its rejection loop can return *)
random_from_field ==
    { f \in FruitRandom(<<0, size_x>>, <<0, size_y>>) :
          f # head /\ f \notin TailCells }

-----------------------------------------------------------------------------
(* SnakeGameField *)

(* push_snake whose Up arm wraps to size_y instead of size_y - 1 *)
MoveHead_up_wraps_past(h, d) ==
    CASE d = "Up" ->
           LET y == h.y - 1 IN Point(h.x, IF y = -1 THEN size_y ELSE y)
      [] d = "Right" ->
           LET x == h.x + 1 IN Point(IF x = size_x THEN 0 ELSE x, h.y)
      [] d = "Down" ->
           LET y == h.y + 1 IN Point(h.x, IF y = size_y THEN 0 ELSE y)
      [] d = "Left" ->
           LET x == h.x - 1 IN Point(IF x = -1 THEN size_x - 1 ELSE x, h.y)

(* push_snake whose Left arm does not wrap *)
MoveHead_left_no_wrap(h, d) ==
    CASE d = "Up" ->
           LET y == h.y - 1 IN Point(h.x, IF y = -1 THEN size_y - 1 ELSE y)
      [] d = "Right" ->
           LET x == h.x + 1 IN Point(IF x = size_x THEN 0 ELSE x, h.y)
      [] d = "Down" ->
           LET y == h.y + 1 IN Point(h.x, IF y = size_y THEN 0 ELSE y)
      [] d = "Left" -> Point(h.x - 1, h.y)

(* push_snake, lines 538-566: the head after the move *)
MoveHead(h, d) ==
    CASE d = "Up" ->
           LET y == h.y - 1 IN Point(h.x, IF y = -1 THEN size_y - 1 ELSE y)
      [] d = "Right" ->
           LET x == h.x + 1 IN Point(IF x = size_x THEN 0 ELSE x, h.y)
      [] d = "Down" ->
           LET y == h.y + 1 IN Point(h.x, IF y = size_y THEN 0 ELSE y)
      [] d = "Left" ->
           LET x == h.x - 1 IN Point(IF x = -1 THEN size_x - 1 ELSE x, h.y)

(* Snake::ate_fruit that returns the flag without clearing it *)
Snake_ate_fruit_keeps_flag(flag) == [ret |-> flag, ate_fruit |-> flag]

(* Snake::ate_fruit, lines 464-468: returns the flag and clears it *)
Snake_ate_fruit(flag) == [ret |-> flag, ate_fruit |-> FALSE]

(* push_snake that grows by pushing old_head twice and popping the front *)
MoveTail_grows_by_duplicate(t, oh, ate) ==
    IF t # <<>>
    THEN IF ~ate THEN Tail(Append(t, oh)) ELSE Tail(Append(Append(t, oh), oh))
    ELSE IF ate THEN Append(t, oh) ELSE t

(* push_snake that pops the front on every tick of a non-empty tail *)
MoveTail_always_pops(t, oh, ate) ==
    IF t # <<>>
    THEN Tail(Append(t, oh))
    ELSE IF ate THEN Append(t, oh) ELSE t

(* push_snake without the `else if snake.ate_fruit()` branch *)
MoveTail_empty_never_grows(t, oh, ate) ==
    IF t # <<>>
    THEN IF ~ate THEN Tail(Append(t, oh)) ELSE Append(t, oh)
    ELSE t

(* push_snake that pushes old_head at the front and pops the back *)
MoveTail_push_front(t, oh, ate) ==
    IF t # <<>>
    THEN IF ~ate THEN SubSeq(<<oh>> \o t, 1, Len(t)) ELSE <<oh>> \o t
    ELSE IF ate THEN Append(t, oh) ELSE t

(* push_snake, lines 568-576: the tail after the move *)
MoveTail(t, oh, ate) ==
    IF t # <<>>
    THEN IF ~ate THEN Tail(Append(t, oh)) ELSE Append(t, oh)
    ELSE IF ate THEN Append(t, oh) ELSE t

(* check_snake_collision that compares the back of the tail only *)
check_snake_collision_back_only ==
    tail # <<>> /\ head = tail[Len(tail)]

(* check_snake_collision that skips the front of the tail *)
check_snake_collision_skips_front == \E i \in 2 .. Len(tail) : head = tail[i]

check_snake_collision == \E i \in 1 .. Len(tail) : head = tail[i]

(* check_win without the + 1 for the head *)
check_win_forgets_head == size_x * size_y = Len(tail)

(* check_win that compares with > instead of == *)
check_win_strictly_more == Len(tail) + 1 > size_x * size_y

check_win == size_x * size_y = Len(tail) + 1

-----------------------------------------------------------------------------
(* SnakeGameRenderer *)

(* gen_vertex_array_objects: `for i in 0..(10 * 10)`, the length of quads *)
QuadCount == 100

(* render::get_quad: the index into quads *)
get_quad(point) == point.x + point.y * 10

Draw(vao, index, color) == [vao |-> vao, index |-> index, color |-> color]

(* render without the `*snake_head != *fruit` test *)
render_always_draws_fruit ==
    <<Draw("square", 0, "SQUARE_COLOR"),
      Draw("quads", get_quad(fruit), "FRUIT_COLOR"),
      Draw("quads", get_quad(head), "SNAKE_PART_COLOR")>>
    \o [i \in 1 .. Len(tail) |->
            Draw("quads", get_quad(tail[i]), "SNAKE_PART_COLOR")]

(* render: the (bound VAO, inColor) of each draw_quad() call, in order *)
render ==
    <<Draw("square", 0, "SQUARE_COLOR")>>
    \o (IF head # fruit
        THEN <<Draw("quads", get_quad(fruit), "FRUIT_COLOR")>>
        ELSE <<>>)
    \o <<Draw("quads", get_quad(head), "SNAKE_PART_COLOR")>>
    \o [i \in 1 .. Len(tail) |->
            Draw("quads", get_quad(tail[i]), "SNAKE_PART_COLOR")]

-----------------------------------------------------------------------------
(* Vertex buffer.  A vertex is the pair <<x, y>> that flat_map keeps of a  *)
(* Vector4f; coordinates are the ones before `vec * &matrix`, which maps   *)
(* each vertex on its own and keeps the order of the buffer.  All values   *)
(* are whole numbers below 2^24, exact in f32.                             *)

OFFSET == 5

OBJECT_SIZE == 60

field_size == OBJECT_SIZE * 10 + OFFSET * 9

(* l.251-257: the four vertices of the field square *)
SquareVertices ==
    << <<0, 0>>, <<field_size, 0>>, <<0, field_size>>, <<field_size, field_size>> >>

(* l.261-286, loop body: b, c, a, d of the quad in column i, row j *)
CellVertices(i, j) ==
    LET start == OBJECT_SIZE + OFFSET
        b == <<i * start, j * start>>
        c == <<b[1] + OBJECT_SIZE, b[2]>>
        a == <<b[1], b[2] + OBJECT_SIZE>>
        d == <<c[1], a[2]>>
    IN  <<b, c, a, d>>

RECURSIVE InnerLoop(_, _)
(* l.260: for i in 0..10, columns i .. 9 of row j *)
InnerLoop(i, j) ==
    IF i = 10 THEN <<>> ELSE CellVertices(i, j) \o InnerLoop(i + 1, j)

RECURSIVE OuterLoop(_)
(* l.259: for j in 0..10, rows j .. 9 *)
OuterLoop(j) ==
    IF j = 10 THEN <<>> ELSE InnerLoop(0, j) \o OuterLoop(j + 1)

(* l.293: .flat_map(|vec| [vec.x, vec.y]), two floats for each vertex *)
FlatMapXY(vs) ==
    [f \in 1 .. (2 * Len(vs)) |-> vs[(f + 1) \div 2][IF f % 2 = 1 THEN 1 ELSE 2]]

(* gen_vertices, lines 222-295: the floats uploaded to the vertex buffer *)
gen_vertices == FlatMapXY(SquareVertices \o OuterLoop(0))

GLfloatSize == 4

VEC2_SIZE == 2 * GLfloatSize

(* l.311-314: the element buffer shared by every vertex array object *)
indices == <<0, 1, 2, 1, 2, 3>>

(* field_quads whose attribute pointer does not skip the square *)
QuadPointer_no_square(i) == i * 4 * VEC2_SIZE

(* l.369: the attribute pointer, in bytes, of field_quads[i] *)
QuadPointer(i) == (i + 1) * 4 * VEC2_SIZE

(* gen_vertex_array_objects, lines 335-387: the byte offset bound by each  *)
(* vertex array object; quads[i + 1] is field_quads[i]                     *)
gen_vertex_array_objects ==
    [square |-> 0, quads |-> [n \in 1 .. QuadCount |-> QuadPointer(n - 1)]]

(* the vertex element e reads through a pointer at byte offset `pointer`   *)
(* with stride VEC2_SIZE                                                   *)
FetchVertex(pointer, e) ==
    LET f == (pointer + e * VEC2_SIZE) \div GLfloatSize
    IN  <<gen_vertices[f + 1], gen_vertices[f + 2]>>

(* the vertex array object a draw binds: self.square or get_quad's quad *)
BoundPointer(d) ==
    IF d.vao = "square"
    THEN gen_vertex_array_objects.square
    ELSE gen_vertex_array_objects.quads[d.index + 1]

(* draw_quad, l.156-160: the vertices DrawElements reads for one draw *)
draw_quad(d) == [k \in 1 .. Len(indices) |-> FetchVertex(BoundPointer(d), indices[k])]

-----------------------------------------------------------------------------
(* Initial states *)

InitLocals ==
    /\ pc = "top"
    /\ pressed_key = "None"
    /\ outcome = "running"
    /\ old_head = NoPoint
    /\ grew = FALSE
    /\ eaten = NoPoint
    /\ ticks = 0
    /\ draws = <<>>
    /\ window = <<>>

(* SnakeGameField::create on a FieldX x FieldY field *)
Init ==
    /\ size_x = FieldX
    /\ size_y = FieldY
    /\ head = origin
    /\ tail = <<>>
    /\ direction = "Right"
    /\ ate_fruit = FALSE
    /\ fruit \in FruitRandom(<<1, size_x>>, <<1, size_y>>)
    /\ InitLocals

-----------------------------------------------------------------------------
(* main(): the frame loop *)

(* l.56-58: window.should_close() is true, break *)
WindowClose ==
    /\ pc = "top"
    /\ pc' = "done"
    /\ outcome' = "closed"
    /\ UNCHANGED <<size_x, size_y, head, tail, direction, ate_fruit, fruit,
                   pressed_key, old_head, grew, eaten, ticks, draws, window>>

(* l.56-62: should_close() is false; poll_events; let mut pressed_key = None *)
PollEvents ==
    /\ pc = "top"
    /\ pc' = "events"
    /\ pressed_key' = "None"
    /\ draws' = <<>>
    /\ window' = <<>>
    /\ UNCHANGED <<size_x, size_y, head, tail, direction, ate_fruit, fruit,
                   outcome, old_head, grew, eaten, ticks>>

(* l.63-67: one event of flush_messages *)
KeyEvent(key, action) ==
    /\ pc = "events"
    /\ pressed_key' = OptionOr(handle_input(key, action), pressed_key)
    /\ UNCHANGED <<size_x, size_y, head, tail, direction, ate_fruit, fruit,
                   pc, outcome, old_head, grew, eaten, ticks, draws, window>>

(* l.63-67 with the event written to the window, at most MaxEvents a poll *)
KeyEventRecorded(key, action) ==
    /\ pc = "events"
    /\ Len(window) < MaxEvents
    /\ pressed_key' = OptionOr(handle_input(key, action), pressed_key)
    /\ window' = Append(window, <<key, action>>)
    /\ UNCHANGED <<size_x, size_y, head, tail, direction, ate_fruit, fruit,
                   pc, outcome, old_head, grew, eaten, ticks, draws>>

(* the match without the try_change_direction call *)
Dispatch_drops_direction ==
    /\ pc = "events"
    /\ IF pressed_key = "Exit"
       THEN pc' = "done" /\ outcome' = "exit"
       ELSE pc' = "handle" /\ UNCHANGED outcome
    /\ UNCHANGED direction
    /\ UNCHANGED <<size_x, size_y, head, tail, ate_fruit, fruit,
                   pressed_key, old_head, grew, eaten, ticks, draws, window>>

(* l.69-83: match pressed_key *)
Dispatch ==
    /\ pc = "events"
    /\ IF pressed_key = "Exit"
       THEN /\ pc' = "done"
            /\ outcome' = "exit"
            /\ UNCHANGED direction
       ELSE /\ pc' = "handle"
            /\ direction' = IF pressed_key = "None" THEN direction
                            ELSE try_change_direction(direction, pressed_key)
            /\ UNCHANGED outcome
    /\ UNCHANGED <<size_x, size_y, head, tail, ate_fruit, fruit,
                   pressed_key, old_head, grew, eaten, ticks, draws, window>>

(* handle_snake_fruit_collision that resamples the fruit on every call *)
handle_snake_fruit_collision_always_resamples ==
    /\ pc = "handle"
    /\ fruit' \in random_from_field
    /\ IF head = fruit
       THEN ate_fruit' = TRUE /\ eaten' = fruit
       ELSE UNCHANGED ate_fruit /\ eaten' = NoPoint
    /\ pc' = "push"
    /\ UNCHANGED <<size_x, size_y, head, tail, direction,
                   pressed_key, outcome, old_head, grew, ticks, draws, window>>

(* l.85: field.handle_snake_fruit_collision() *)
handle_snake_fruit_collision ==
    /\ pc = "handle"
    /\ IF head = fruit
       THEN /\ ate_fruit' = TRUE
            /\ fruit' \in random_from_field
            /\ eaten' = fruit
       ELSE /\ UNCHANGED <<ate_fruit, fruit>>
            /\ eaten' = NoPoint
    /\ pc' = "push"
    /\ UNCHANGED <<size_x, size_y, head, tail, direction,
                   pressed_key, outcome, old_head, grew, ticks, draws, window>>

(* l.86: field.push_snake(); counted bounds the run to MaxTicks ticks *)
push_snake(counted) ==
    /\ pc = "push"
    /\ IF counted THEN ticks < MaxTicks /\ ticks' = ticks + 1
                  ELSE ticks' = ticks
    /\ old_head' = head
    /\ head' = MoveHead(head, direction)
    /\ tail' = MoveTail(tail, head, Snake_ate_fruit(ate_fruit).ret)
    /\ grew' = Snake_ate_fruit(ate_fruit).ret
    /\ ate_fruit' = Snake_ate_fruit(ate_fruit).ate_fruit
    /\ eaten' = NoPoint
    /\ pc' = "check"
    /\ UNCHANGED <<size_x, size_y, direction, fruit, pressed_key, outcome,
                   draws, window>>

(* `if field.check_win() { break }`: the collision test left out *)
Check_win_only ==
    /\ pc = "check"
    /\ IF check_win
       THEN pc' = "done" /\ outcome' = "win"
       ELSE pc' = "render" /\ UNCHANGED outcome
    /\ old_head' = NoPoint
    /\ grew' = FALSE
    /\ UNCHANGED <<size_x, size_y, head, tail, direction, ate_fruit, fruit,
                   pressed_key, eaten, ticks, draws, window>>

(* `if field.check_win() || field.check_snake_collision() { break }` *)
Check_win_first ==
    /\ pc = "check"
    /\ IF check_win
       THEN pc' = "done" /\ outcome' = "win"
       ELSE IF check_snake_collision
            THEN pc' = "done" /\ outcome' = "collision"
            ELSE pc' = "render" /\ UNCHANGED outcome
    /\ old_head' = NoPoint
    /\ grew' = FALSE
    /\ UNCHANGED <<size_x, size_y, head, tail, direction, ate_fruit, fruit,
                   pressed_key, eaten, ticks, draws, window>>

(* l.87-91: if check_snake_collision() || check_win() { break } *)
Check ==
    /\ pc = "check"
    /\ IF check_snake_collision
       THEN pc' = "done" /\ outcome' = "collision"
       ELSE IF check_win
            THEN pc' = "done" /\ outcome' = "win"
            ELSE pc' = "render" /\ UNCHANGED outcome
    /\ old_head' = NoPoint
    /\ grew' = FALSE
    /\ UNCHANGED <<size_x, size_y, head, tail, direction, ate_fruit, fruit,
                   pressed_key, eaten, ticks, draws, window>>

(* l.90-95: renderer.render(&field); swap_buffers; sleep; the iteration    *)
(* ends and its pressed_key goes out of scope                              *)
Render ==
    /\ pc = "render"
    /\ pc' = "top"
    /\ pressed_key' = "None"
    /\ draws' = render
    /\ UNCHANGED <<size_x, size_y, head, tail, direction, ate_fruit, fruit,
                   outcome, old_head, grew, eaten, ticks, window>>

Next ==
    \/ WindowClose
    \/ PollEvents
    \/ \E key \in Keys, action \in Actions : KeyEvent(key, action)
    \/ Dispatch
    \/ handle_snake_fruit_collision
    \/ push_snake(FALSE)
    \/ Check
    \/ Render

Spec == Init /\ [][Next]_vars

-----------------------------------------------------------------------------
(* The 10 x 10 field of SnakeGameField::create, from a mid-game position.   *)
(* InitLoop is the top of the iteration reached from create() with the     *)
(* first fruit at (1,1) and the next three resampled to (2,1), (3,1) and   *)
(* (4,1): Down, Right onto (1,1), then Right three times, eating each.     *)

InitLoop ==
    /\ size_x = CreateSizeX
    /\ size_y = CreateSizeY
    /\ head = Point(4, 1)
    /\ tail = <<Point(1, 1), Point(2, 1), Point(3, 1)>>
    /\ direction = "Right"
    /\ ate_fruit = FALSE
    /\ fruit = Point(4, 1)
    /\ InitLocals

NextLoop ==
    \/ WindowClose
    \/ PollEvents
    \/ \E key \in Keys, action \in Actions : KeyEvent(key, action)
    \/ Dispatch
    \/ handle_snake_fruit_collision
    \/ push_snake(TRUE)
    \/ Check
    \/ Render

SpecLoop == InitLoop /\ [][NextLoop]_vars

-----------------------------------------------------------------------------
(* The 10 x 10 field from create() and from the mid-game positions that    *)
(* follow it when the first fruit is at (1,1) and the next ones are        *)
(* resampled along row 1: Down, Right onto (1,1), then Right, eating k     *)
(* fruits in a row.  The last resample put the fruit at the origin, or     *)
(* (k = 3, the position of InitLoop) on the cell the head has now reached. *)

InitCreate ==
    /\ size_x = CreateSizeX
    /\ size_y = CreateSizeY
    /\ head = origin
    /\ tail = <<>>
    /\ direction = "Right"
    /\ ate_fruit = FALSE
    /\ fruit \in FruitRandom(<<1, size_x>>, <<1, size_y>>)
    /\ InitLocals

InitMidGame ==
    /\ size_x = CreateSizeX
    /\ size_y = CreateSizeY
    /\ \E k \in 1 .. 4 :
          /\ head = Point(k + 1, 1)
          /\ tail = [i \in 1 .. k |-> Point(i, 1)]
          /\ fruit \in {origin} \cup (IF k = 3 THEN {head} ELSE {})
    /\ direction = "Right"
    /\ ate_fruit = FALSE
    /\ InitLocals

InitTen == InitCreate \/ InitMidGame

SpecTen == InitTen /\ [][NextLoop]_vars

-----------------------------------------------------------------------------
(* One poll window in detail: the events of each poll are written to       *)
(* window (at most MaxEvents of them), for MaxInputTicks ticks of the game *)

NextInput ==
    \/ WindowClose
    \/ PollEvents
    \/ \E key \in Keys, action \in Actions : KeyEventRecorded(key, action)
    \/ Dispatch
    \/ handle_snake_fruit_collision
    \/ (ticks < MaxInputTicks /\ push_snake(TRUE))
    \/ Check
    \/ Render

SpecInput == Init /\ [][NextInput]_vars

-----------------------------------------------------------------------------
(* render on the 10 x 10 field with the head on any cell: the head reached *)
(* its cell moving Right with an empty body, and the fruit is the one      *)
(* create() placed, at a cell the head did not pass or, off row 0 and      *)
(* column 0, under the head.                                               *)

InitRender ==
    /\ size_x = CreateSizeX
    /\ size_y = CreateSizeY
    /\ head \in { Point(x, y) : x \in 0 .. (CreateSizeX - 1),
                                y \in 0 .. (CreateSizeY - 1) }
    /\ tail = <<>>
    /\ direction = "Right"
    /\ ate_fruit = FALSE
    /\ fruit \in {IF head.y = 5 THEN Point(1, 1) ELSE Point(5, 5)}
                  \cup (IF head.x >= 1 /\ head.y >= 1 THEN {head} ELSE {})
    /\ pc = "render"
    /\ pressed_key = "None"
    /\ outcome = "running"
    /\ old_head = NoPoint
    /\ grew = FALSE
    /\ eaten = NoPoint
    /\ ticks = 0
    /\ draws = <<>>
    /\ window = <<>>

NextRender == Render

SpecRender == InitRender /\ [][NextRender]_vars

-----------------------------------------------------------------------------
(* Properties *)

Running == pc \in {"top", "events", "handle", "push", "render"}

Cells == { Point(x, y) : x \in 0 .. (size_x - 1), y \in 0 .. (size_y - 1) }

Reverse(d) ==
    CASE d = "Up" -> "Down" [] d = "Down" -> "Up"
      [] d = "Left" -> "Right" [] d = "Right" -> "Left"

DeltaX(d) == CASE d = "Right" -> 1 [] d = "Left" -> -1 [] OTHER -> 0

DeltaY(d) == CASE d = "Down" -> 1 [] d = "Up" -> -1 [] OTHER -> 0

PushStep == pc = "push" /\ pc' = "check"

HandleStep == pc = "handle" /\ pc' = "push"

(* C1: at the top of an iteration, and wherever the game is still running  *)
(* (the state handed to render included), the head equals no body segment. *)
C1_HeadNotInBody == Running => head \notin TailCells

C1_Witness == pc = "render" /\ Len(tail) >= 4

(* C2: push_snake moves the head exactly one cell in the current direction *)
(* modulo the field size, wrapping on each of the four edges, and leaves   *)
(* the other coordinate unchanged.                                         *)
C2_HeadMovesOneCell ==
    [][PushStep =>
        /\ head'.x = (head.x + DeltaX(direction)) % size_x
        /\ head'.y = (head.y + DeltaY(direction)) % size_y
        /\ (direction = "Right" /\ head.x = size_x - 1) => head'.x = 0
        /\ (direction = "Left" /\ head.x = 0) => head'.x = size_x - 1
        /\ (direction = "Down" /\ head.y = size_y - 1) => head'.y = 0
        /\ (direction = "Up" /\ head.y = 0) => head'.y = size_y - 1
        /\ direction \in {"Up", "Down"} => head'.x = head.x
        /\ direction \in {"Left", "Right"} => head'.y = head.y]_vars

C2_Witness ==
    /\ pc = "check"
    /\ direction = "Up"
    /\ old_head.y = 0
    /\ head = Point(old_head.x, size_y - 1)

(* C3: across push_snake the body length grows by exactly one when         *)
(* ate_fruit was set on entry and is unchanged otherwise, for an empty and *)
(* for a non-empty body.                                                   *)
C3_BodyLength ==
    [][PushStep =>
        Len(tail') = Len(tail) + (IF ate_fruit THEN 1 ELSE 0)]_vars

C3_Witness == pc = "check" /\ grew /\ Len(tail) >= 2

(* C4: body length + 1 never exceeds size_x * size_y, and it is strictly   *)
(* less in every running state: the loop stops on the tick that fills the  *)
(* board.                                                                  *)
C4_BodyBound ==
    /\ Len(tail) + 1 <= size_x * size_y
    /\ Running => Len(tail) + 1 < size_x * size_y

C4_Witness == outcome = "win" /\ Len(tail) + 1 = size_x * size_y

(* C5: right after handle_snake_fruit_collision, resampled or not, the     *)
(* fruit is neither the head nor a body segment.                           *)
C5_FruitOffSnake == pc = "push" => (fruit # head /\ fruit \notin TailCells)

C5_Witness == pc = "push" /\ ate_fruit /\ Len(tail) >= 2

C7_FreeCellWhenSampling ==
    (pc = "handle" /\ head = fruit) =>
        /\ \E c \in Cells : c # head /\ c \notin TailCells
        /\ Len(tail) + 1 < size_x * size_y

C7_Witness ==
    pc = "handle" /\ head = fruit /\ Len(tail) + 2 = size_x * size_y

(* C8: try_change_direction(d) keeps the direction when d is its exact     *)
(* reverse and sets it to d otherwise.                                     *)
C8_TryChangeDirection ==
    [][(pc = "events" /\ pc' = "handle" /\ pressed_key \in SnakeDirection) =>
        direction' = IF pressed_key = Reverse(direction) THEN direction
                     ELSE pressed_key]_vars

C8_Witness == pc = "handle" /\ pressed_key = "Left" /\ direction = "Right"

(* C9: with the head on the fruit, handle_snake_fruit_collision sets       *)
(* ate_fruit and moves the fruit off the head; nothing between the tick    *)
(* that reached the fruit and that call moves head or fruit; the following *)
(* push_snake appends the pre-move head, the cell where the fruit was, so  *)
(* an empty body becomes that single cell.                                 *)
C9_EatThenGrow ==
    [][/\ (pc \in {"check", "render", "top", "events"}) =>
              (head' = head /\ fruit' = fruit)
       /\ (HandleStep /\ head = fruit) =>
              (ate_fruit' /\ head' = head /\ fruit' # head')
       /\ (PushStep /\ ate_fruit) =>
              (eaten = head /\ tail' = Append(tail, eaten))
       /\ (PushStep /\ ate_fruit /\ tail = <<>>) => tail' = <<eaten>>]_vars

C9_Witness == pc = "check" /\ grew /\ tail = <<old_head>>

(* C10: check_snake_collision ends the game as a collision exactly on the  *)
(* tick whose push_snake put the head on a cell of the body, and lets the  *)
(* game go on to render on every other tick; the 3-segment snake of        *)
(* InitLoop, moving Right, cannot be steered onto its body in fewer than   *)
(* three ticks.                                                            *)
C10_CollisionOnLandingTick ==
    [][pc = "check" =>
        /\ (pc' = "done" /\ outcome' = "collision") <=> head \in TailCells
        /\ pc' = "render" => head \notin TailCells
        /\ ticks < 3 => outcome' # "collision"]_vars

C10_Witness ==
    /\ outcome = "collision"
    /\ ticks = 4
    /\ direction = "Up"
    /\ head = Point(4, 1)
    /\ tail = <<Point(4, 1), Point(5, 1), Point(5, 2), Point(4, 2)>>

-----------------------------------------------------------------------------
(* Input *)

DirectionKeys == {"W", "Up", "D", "Right", "S", "Down", "A", "Left"}

KeyDirection(key) ==
    CASE key \in {"W", "Up"} -> "Up" [] key \in {"D", "Right"} -> "Right"
      [] key \in {"S", "Down"} -> "Down" [] key \in {"A", "Left"} -> "Left"

IsDirectionalPress(e) == e[2] = "Press" /\ e[1] \in DirectionKeys

IsEscapePress(e) == e = <<"Escape", "Press">>

DirectionalPresses(w) == { i \in 1 .. Len(w) : IsDirectionalPress(w[i]) }

Max(S) == CHOOSE m \in S : \A n \in S : n <= m

(* the direction of the last directional press of the window, or "None" *)
LastDirectional(w) ==
    IF DirectionalPresses(w) = {} THEN "None"
    ELSE KeyDirection(w[Max(DirectionalPresses(w))][1])

(* the last directional press of the window that does not reverse d *)
LatestEligible(w, d) ==
    LET ok == { i \in DirectionalPresses(w) : KeyDirection(w[i][1]) # Reverse(d) }
    IN  IF ok = {} THEN d ELSE KeyDirection(w[Max(ok)][1])

DispatchStep == pc = "events" /\ pc' # "events"

(* C11: of the directional presses of one poll window exactly the last is  *)
(* handed to try_change_direction, once: the direction either stays or     *)
(* becomes that press; earlier presses, releases, repeats and unmapped     *)
(* keys neither reach it nor displace the last press.                      *)
C11_LastDirectionalPressWins ==
    [][/\ (DispatchStep /\ pc' = "handle") =>
              /\ pressed_key = LastDirectional(window)
              /\ direction' \in {direction, LastDirectional(window)}
              /\ LastDirectional(window) = "None" => direction' = direction
       /\ (pc # "events") => direction' = direction]_vars

C11_Witness ==
    /\ pc = "handle"
    /\ window = << <<"A", "Press">>, <<"W", "Press">> >>
    /\ pressed_key = "Up"
    /\ direction = "Up"

(* C12 as stated: the direction after the poll is the latest press of the  *)
(* window that does not reverse the current direction.                     *)
C12_LatestEligibleWins ==
    [][(DispatchStep /\ pc' = "handle") =>
           direction' = LatestEligible(window, direction)]_vars

(* C12 amended: only the last directional press of the window is tried; if *)
(* it reverses the current direction the direction stays as it was, even   *)
(* when an earlier press of the window was eligible; the direction so set  *)
(* is the one the tick moves the head in.                                  *)
C12_OnlyLastPressTried ==
    [][/\ (DispatchStep /\ pc' = "handle") =>
              direction' = IF LastDirectional(window) \in {"None", Reverse(direction)}
                           THEN direction
                           ELSE LastDirectional(window)
       /\ pc = "handle" => direction' = direction
       /\ PushStep =>
              /\ head'.x = (head.x + DeltaX(direction)) % size_x
              /\ head'.y = (head.y + DeltaY(direction)) % size_y]_vars

C12_Witness ==
    /\ pc = "check"
    /\ window = << <<"W", "Press">>, <<"A", "Press">> >>
    /\ direction = "Right"
    /\ head = Point(1, 0)

(* C13: an Escape press among the events of a poll makes the loop exit in  *)
(* that iteration, whatever else was pressed.                              *)
C13_EscapeAlwaysExits ==
    [][(DispatchStep /\ \E i \in 1 .. Len(window) : IsEscapePress(window[i])) =>
           (pc' = "done" /\ outcome' = "exit")]_vars

-----------------------------------------------------------------------------
(* Frame loop *)

LoopOrder ==
    { <<"top", "done">>, <<"top", "events">>, <<"events", "events">>,
      <<"events", "done">>, <<"events", "handle">>, <<"handle", "push">>,
      <<"push", "check">>, <<"check", "render">>, <<"check", "done">>,
      <<"render", "top">> }

(* C14: an iteration that is not left on window-close or Exit goes through *)
(* the match on pressed_key (the only place the direction changes, at most *)
(* once), then handle_snake_fruit_collision, then push_snake, then the     *)
(* checks, then (when neither check is true) render, each exactly once and *)
(* in this order; a direction accepted by the match is the direction this  *)
(* iteration's push_snake moves the head in.                               *)
C14_IterationOrder ==
    [][/\ <<pc, pc'>> \in LoopOrder
       /\ direction' # direction => (pc = "events" /\ pc' = "handle")
       /\ (fruit' # fruit \/ ate_fruit' # ate_fruit) => (HandleStep \/ PushStep)
       /\ (head' # head \/ tail' # tail) => PushStep
       /\ (draws' # draws /\ draws' # <<>>) => pc = "render"
       /\ (pc = "events" /\ pc' = "handle" /\ pressed_key \in SnakeDirection
              /\ pressed_key # Reverse(direction)) => direction' = pressed_key
       /\ (PushStep /\ pressed_key \in SnakeDirection
              /\ pressed_key # Reverse(direction)) =>
              /\ direction = pressed_key
              /\ head'.x = (head.x + DeltaX(pressed_key)) % size_x
              /\ head'.y = (head.y + DeltaY(pressed_key)) % size_y]_vars

C14_Witness ==
    /\ pc = "check"
    /\ pressed_key = "Down"
    /\ direction = "Down"
    /\ old_head = Point(1, 0)
    /\ head = Point(1, 1)

(* C15: a tick that ends with a collision or a full board ends the loop    *)
(* without rendering that state; after the loop nothing runs any more; and *)
(* every state handed to render has the head off the body and the board    *)
(* not full.                                                               *)
C15_TerminalNotRendered ==
    [][/\ pc = "done" => UNCHANGED vars
       /\ (pc = "check" /\ (head \in TailCells
                            \/ Len(tail) + 1 = size_x * size_y)) =>
              (pc' = "done" /\ draws' = <<>>)
       /\ pc = "render" =>
              (head \notin TailCells /\ Len(tail) + 1 < size_x * size_y)]_vars

C15_Witness ==
    /\ pc = "done"
    /\ outcome = "collision"
    /\ head \in TailCells
    /\ draws = <<>>

(* C16: when the tick leaves the head on the body and the board full at    *)
(* once, the game ends as a collision, never as a win.                     *)
C16_CollisionBeforeWin ==
    /\ (pc = "done" /\ head \in TailCells) => outcome = "collision"
    /\ outcome = "win" => (head \notin TailCells
                           /\ Len(tail) + 1 = size_x * size_y)

C16_Witness ==
    /\ pc = "done"
    /\ outcome = "collision"
    /\ head \in TailCells
    /\ Len(tail) + 1 = size_x * size_y

-----------------------------------------------------------------------------
(* Renderer *)

OnField(p) == p.x \in 0 .. (size_x - 1) /\ p.y \in 0 .. (size_y - 1)

QuadIndexInRange(p) == (p.x + p.y * 10) \in 0 .. 99

(* C17: head, every body segment and the fruit stay inside the field, so   *)
(* every index x + y*10 computed for them on the 10 x 10 field is in       *)
(* [0, 100) and every draw binds one of the 100 quads.                     *)
C17_PointsOnField ==
    /\ OnField(head) /\ QuadIndexInRange(head)
    /\ OnField(fruit) /\ QuadIndexInRange(fruit)
    /\ \A i \in 1 .. Len(tail) : OnField(tail[i]) /\ QuadIndexInRange(tail[i])
    /\ \A i \in 1 .. Len(draws) : draws[i].index \in 0 .. (QuadCount - 1)

C17_Witness ==
    /\ pc = "top"
    /\ head = Point(9, 9)
    /\ \E i \in 1 .. Len(draws) : draws[i].index = 99

(* C18: render draws the boundary quad in the field colour, then the       *)
(* fruit's quad in the fruit colour exactly when fruit # head, then the    *)
(* head's quad and one quad per body segment, front to back, in the snake  *)
(* colour; nothing else is drawn and the field is left as it was.          *)
C18_RenderDraws ==
    [][pc = "render" =>
        LET k == IF fruit # head THEN 1 ELSE 0
            d == draws'
        IN  /\ UNCHANGED <<size_x, size_y, head, tail, direction, ate_fruit, fruit>>
            /\ Len(d) = 2 + k + Len(tail)
            /\ d[1] = [vao |-> "square", index |-> 0, color |-> "SQUARE_COLOR"]
            /\ k = 1 => d[2] = [vao |-> "quads", index |-> fruit.y * 10 + fruit.x,
                                color |-> "FRUIT_COLOR"]
            /\ \A i \in 1 .. Len(d) :
                   d[i].color = "FRUIT_COLOR" => (i = 2 /\ fruit # head)
            /\ d[2 + k] = [vao |-> "quads", index |-> head.y * 10 + head.x,
                           color |-> "SNAKE_PART_COLOR"]
            /\ \A i \in 1 .. Len(tail) :
                   d[2 + k + i] = [vao |-> "quads",
                                   index |-> tail[i].y * 10 + tail[i].x,
                                   color |-> "SNAKE_PART_COLOR"]]_vars

C18_Witness ==
    /\ pc = "top"
    /\ head = fruit
    /\ Len(tail) >= 2
    /\ Len(draws) = 2 + Len(tail)

(* C19: in every state handed to render the head and the body segments are *)
(* pairwise distinct cells and the fruit is on no body segment.            *)
C19_SnakeCellsDistinct ==
    pc = "render" =>
        /\ Cardinality({head} \cup TailCells) = Len(tail) + 1
        /\ fruit \notin TailCells

C19_Witness == pc = "render" /\ Len(tail) >= 3 /\ fruit # head

(* C20: on the 10 x 10 field a tick can end in a collision only when the   *)
(* body has at least 4 segments after it.                                  *)
C20_CollisionNeedsFourSegments ==
    [][(pc = "check" /\ pc' = "done" /\ outcome' = "collision") =>
           Len(tail) >= 4]_vars

C20_Witness ==
    /\ pc = "done"
    /\ outcome = "collision"
    /\ size_x = 10 /\ size_y = 10
    /\ Len(tail) = 4

-----------------------------------------------------------------------------
(* Body chain *)

WrapAdjacent(a, b) ==
    \/ a.y = b.y /\ ((a.x - b.x) % size_x) \in {1, size_x - 1}
    \/ a.x = b.x /\ ((a.y - b.y) % size_y) \in {1, size_y - 1}

(* C21: after every push_snake the back of the body is the cell the head   *)
(* just left and is wraparound-adjacent to the head, consecutive segments  *)
(* are wraparound-adjacent, and on a tick without growth the segment       *)
(* dropped is the front one, the oldest pushed.                            *)
C21_ConnectedChain ==
    [][PushStep =>
        /\ tail' # <<>> =>
               /\ tail'[Len(tail')] = head
               /\ WrapAdjacent(tail'[Len(tail')], head')
        /\ \A i \in 1 .. (Len(tail') - 1) : WrapAdjacent(tail'[i], tail'[i + 1])
        /\ (tail # <<>> /\ ~ate_fruit) =>
               tail' = SubSeq(tail, 2, Len(tail)) \o <<head>>]_vars

C21_Witness ==
    /\ pc = "check"
    /\ ~grew
    /\ Len(tail) >= 3
    /\ tail[Len(tail)] = old_head
    /\ tail[1].x # tail[Len(tail)].x
    /\ tail[1].y # tail[Len(tail)].y

(* C22: ate_fruit is false after every push_snake, on an empty and on a    *)
(* non-empty body, with or without growth; it is set only between a        *)
(* handle_snake_fruit_collision that found the head on the fruit and the   *)
(* push_snake of the same iteration, and the body grows by one segment     *)
(* only on such a tick.                                                    *)
C22_PendingGrowthCleared ==
    [][/\ PushStep => ~ate_fruit'
       /\ ate_fruit' => (HandleStep /\ head = fruit /\ pc' = "push")
       /\ Len(tail') # Len(tail) =>
              /\ PushStep /\ ate_fruit /\ eaten # NoPoint
              /\ Len(tail') = Len(tail) + 1]_vars

C22_Witness ==
    /\ pc = "check"
    /\ grew
    /\ ~ate_fruit
    /\ tail = <<old_head>>

-----------------------------------------------------------------------------
(* Fruit frame *)

(* C23: the fruit changes only in handle_snake_fruit_collision and only    *)
(* when the head is on it; a call with the head elsewhere changes neither  *)
(* the fruit nor ate_fruit, and the direction change, push_snake, the      *)
(* checks and render leave the fruit alone.                                *)
C23_FruitChangesOnlyWhenEaten ==
    [][/\ fruit' # fruit => (HandleStep /\ head = fruit)
       /\ (HandleStep /\ head # fruit) => UNCHANGED <<fruit, ate_fruit>>
       /\ (HandleStep /\ head = fruit) => (fruit' # fruit /\ ate_fruit')]_vars

C23_Witness ==
    /\ pc = "top"
    /\ size_x = 10 /\ size_y = 10
    /\ ticks = 3
    /\ direction = "Right"
    /\ head = Point(3, 0)
    /\ tail = <<>>
    /\ fruit = Point(3, 3)

-----------------------------------------------------------------------------
(* Quad selection *)

(* the four vertices of the cell in column x, row y: top-left corner       *)
(* (65x, 65y), side 60                                                     *)
CellCorners(x, y) ==
    << <<65 * x, 65 * y>>, <<65 * x + 60, 65 * y>>,
       <<65 * x, 65 * y + 60>>, <<65 * x + 60, 65 * y + 60>> >>

(* the first four vertices of the buffer *)
FirstFour == [v \in 1 .. 4 |-> <<gen_vertices[2 * v - 1], gen_vertices[2 * v]>>]

(* the two triangles DrawElements assembles from four vertices *)
Triangles(q) == <<q[1], q[2], q[3], q[2], q[3], q[4]>>

DrawsCell(d, p) ==
    /\ d.vao = "quads"
    /\ d.index = get_quad(p)
    /\ BoundPointer(d) = (d.index + 1) * 4 * VEC2_SIZE
    /\ draw_quad(d) = Triangles(CellCorners(p.x, p.y))

(* C24: for every grid point the quad render selects, index x + y*10 bound *)
(* at vertex (index + 1) * 4 of the buffer, is drawn from exactly the four *)
(* vertices emitted for column x and row y, top-left corner (65x, 65y);    *)
(* the boundary quad is drawn from the first four vertices of the buffer.  *)
C24_QuadIsCell ==
    (pc = "top" /\ draws # <<>>) =>
        /\ draws[1].vao = "square"
        /\ draw_quad(draws[1]) = Triangles(FirstFour)
        /\ FirstFour = SquareVertices
        /\ \A i \in 2 .. Len(draws) :
               \E p \in {head, fruit} \cup TailCells : DrawsCell(draws[i], p)
        /\ \A p \in {head} \cup TailCells :
               \E i \in 2 .. Len(draws) : DrawsCell(draws[i], p)
        /\ fruit # head => DrawsCell(draws[2], fruit)

C24_Witness ==
    /\ pc = "top"
    /\ size_x = 10 /\ size_y = 10
    /\ head = Point(9, 9)
    /\ fruit = Point(5, 5)
    /\ Len(draws) = 3
    /\ draws[2].index = 55
    /\ draw_quad(draws[2])[1] = <<325, 325>>
    /\ draws[3].index = 99
    /\ draw_quad(draws[3])[6] = <<645, 645>>
    /\ Len(gen_vertices) = 2 * 4 * (QuadCount + 1)

====
